---- MODULE Spec2Model ----
(***************************************************************************)
(* Model of the crawl orchestration of Web-Crawler-AI-Chatbot:             *)
(*   integrated.py : sitemap resolution, entrypoint, crawl()               *)
(*   crawler.py    : crawl_playwright() / render_and_parse_page()          *)
(*                                                                         *)
(* A URL (any Python str handled by the code) is a sequence of tokens; a   *)
(* token stands for a run of characters that the code never splits.       *)
(* "http://a.com/doc.pdf" is <<"http", "://", "a.com", "/", "doc", ".pdf">>.*)
(* urlparse, str.endswith, str.split, urljoin are computed on tokens.      *)
(***************************************************************************)
EXTENDS Integers, Sequences, FiniteSets, TLC

\* ------------------------------------------------------------------------
\* Bounds of the model
\* ------------------------------------------------------------------------
MaxDepthInput == 1      \* max_depth typed by the user ranges over 0..MaxDepthInput
MaxLinks == 2           \* anchors on one fetched page: 0..MaxLinks
MaxTopK == 2            \* chunks one retrieval returns: 0..MaxTopK

\* ------------------------------------------------------------------------
\* Python value None
\* ------------------------------------------------------------------------
None == <<"None">>

\* ------------------------------------------------------------------------
\* String helpers (token sequences)
\* ------------------------------------------------------------------------
Range(s) == {s[i] : i \in 1..Len(s)}

\* least index i >= from with s[i] \in toks, Len(s)+1 when there is none
FirstIndex(s, toks, from) ==
  LET hits == {i \in from..Len(s) : s[i] \in toks}
  IN IF hits = {} THEN Len(s) + 1
     ELSE CHOOSE i \in hits : \A j \in hits : i <= j

\* s[a..b], empty when b < a
Slice(s, a, b) == IF b < a THEN <<>> ELSE SubSeq(s, a, b)

\* str.lower(): only the tokens below have upper-case letters in the model
LowerTok(t) ==
  CASE t = ".PDF" -> ".pdf"
    [] t = ".PNG" -> ".png"
    [] t = "About" -> "about"
    [] t = "None" -> "none"
    [] OTHER -> t

lower(s) == [i \in 1..Len(s) |-> LowerTok(s[i])]

\* str.endswith(ext) for an extension token
endswith(s, ext) == Len(s) > 0 /\ s[Len(s)] = ext

\* s.split("#")[0]
SplitHash0(s) == Slice(s, 1, FirstIndex(s, {"#"}, 1) - 1)

\* ------------------------------------------------------------------------
\* Configuration of integrated.py
\* ------------------------------------------------------------------------
MAX_FILE_SIZE_MB == 10
DOC_EXTENSIONS == <<".pdf", ".docx", ".doc">>
IMG_EXTENSIONS == <<".png", ".jpg", ".jpeg", ".gif", ".bmp", ".tif", ".tiff", ".svg", ".webp">>
SKIP_EXTENSIONS ==
  <<".zip", ".rar", ".tar", ".tar.gz", ".7z", ".gz", ".xz", ".bz2", ".iso",
    ".exe", ".bin", ".msi">> \o IMG_EXTENSIONS

\* ------------------------------------------------------------------------
\* urllib.parse
\* ------------------------------------------------------------------------
\* urlparse(url): scheme, netloc, path, query, fragment
urlparse(url) ==
  LET hasScheme == Len(url) >= 2 /\ url[2] \in {"://", ":"}
      hasNetloc == hasScheme /\ url[2] = "://"
      p0 == IF hasScheme THEN 3 ELSE 1
      pathStart == IF hasNetloc THEN FirstIndex(url, {"/", "?", "#"}, p0) ELSE p0
      pathEnd == FirstIndex(url, {"?", "#"}, pathStart)
      fragAt == FirstIndex(url, {"#"}, pathStart)
      hasQuery == pathEnd <= Len(url) /\ url[pathEnd] = "?"
  IN [scheme |-> IF hasScheme THEN url[1] ELSE "",
      netloc |-> IF hasNetloc THEN Slice(url, p0, pathStart - 1) ELSE <<>>,
      path |-> Slice(url, pathStart, pathEnd - 1),
      query |-> IF hasQuery THEN Slice(url, pathEnd + 1, fragAt - 1) ELSE <<>>,
      fragment |-> Slice(url, fragAt + 1, Len(url))]

\* urljoin and urlparse raise ValueError("Invalid IPv6 URL") on a netloc with
\* an unmatched bracket
UrlRaises(url) == "[" \in Range(url)

\* urljoin(base, href): an href with a scheme stands for itself, an href
\* that starts with "/" replaces path, query and fragment of the base
urljoin(base, href) ==
  IF urlparse(href).scheme # "" THEN href
  ELSE IF Len(href) = 0 THEN SplitHash0(base)
  ELSE LET b == urlparse(base)
       IN <<b.scheme, "://">> \o b.netloc \o href

\* ------------------------------------------------------------------------
\* Helpers of integrated.py
\* ------------------------------------------------------------------------
\* ext.lstrip(".")
LstripDot(ext) ==
  CASE ext = ".pdf" -> "pdf"
    [] ext = ".docx" -> "docx"
    [] ext = ".doc" -> "doc"

\* "marker" in ctype
Contains(ctype, marker) == marker \in Range(ctype)

\* headers.get("content-type", "")
HeaderGet(headers, key) == IF key \in DOMAIN headers THEN headers[key] ELSE <<>>

get_resource_type(url, headers) ==
  LET low == lower(url)
      docs == {i \in 1..Len(DOC_EXTENSIONS) : endswith(low, DOC_EXTENSIONS[i])}
      ctype == lower(HeaderGet(headers, "content-type"))
  IN IF docs # {}
       THEN LstripDot(DOC_EXTENSIONS[CHOOSE i \in docs : \A j \in docs : i <= j])
     ELSE IF DOMAIN headers # {} /\ Contains(ctype, "pdf") THEN "pdf"
     ELSE IF DOMAIN headers # {}
             /\ (Contains(ctype, "word") \/ Contains(ctype, "officedocument"))
       THEN "docx"
     ELSE "html"

\* any(lower_url.endswith(ext) for ext in SKIP_EXTENSIONS), lines 203-204
IsSkipUrl(url) ==
  LET lower_url == SplitHash0(lower(url))
  IN \E i \in 1..Len(SKIP_EXTENSIONS) : endswith(lower_url, SKIP_EXTENSIONS[i])

\* os.path.splitext(path)[1]: the last token when it is an extension
IsExtTok(t) ==
  t \in Range(DOC_EXTENSIONS) \cup Range(SKIP_EXTENSIONS) \cup {".PDF", ".PNG", ".xml"}

Splitext1(path) ==
  IF Len(path) >= 2 /\ IsExtTok(path[Len(path)]) /\ path[Len(path) - 1] # "/"
  THEN <<path[Len(path)]>> ELSE <<>>

\* path.strip("/")
RECURSIVE StripSlash(_)
StripSlash(p) ==
  IF Len(p) > 0 /\ p[1] = "/" THEN StripSlash(Tail(p))
  ELSE IF Len(p) > 0 /\ p[Len(p)] = "/" THEN StripSlash(SubSeq(p, 1, Len(p) - 1))
  ELSE p

\* re.sub(r"[^A-Za-z0-9_\-\.]", "_", path): of the tokens of a path only the
\* separator holds a character outside the class
SanitizeTok(t) == IF t = "/" THEN "_" ELSE t

\* ------------------------------------------------------------------------
\* The web the crawler runs against
\* ------------------------------------------------------------------------
U_ROOT == <<"http", "://", "a.com", "/">>
U_ABOUT == <<"http", "://", "a.com", "/", "about">>
U_PDF == <<"http", "://", "a.com", "/", "doc", ".pdf">>
U_PNG == <<"http", "://", "a.com", "/", "img", ".png">>
U_EXT == <<"https", "://", "b.com", "/", "x">>
U_PNG_Q == <<"http", "://", "a.com", "/", "img", ".png", "?", "v=1">>
U_PNG_F == <<"http", "://", "a.com", "/", "img", ".PNG", "#", "top">>
U_ABOUT_F == <<"http", "://", "a.com", "/", "about", "#", "team">>
U_PORT == <<"http", "://", "a.com", ":", "80", "/", "about", "/">>
H_ABOUT == <<"/", "about">>              \* <a href="/about">
H_MAIL == <<"mailto", ":", "x">>         \* <a href="mailto:x">
H_BAD == <<"http", "://", "[">>          \* <a href="http://[">: urljoin raises ValueError

\* href attributes that may occur on a page
HREFS == {H_ABOUT, U_PNG, U_EXT, H_MAIL, H_BAD}
ANCHORS == {<<"About">>}
Links == [href : HREFS, text : ANCHORS]

\* the anchors of a page, in document order
SeqsUpTo(S, n) == UNION {[1..k -> S] : k \in 0..n}
Bodies == SeqsUpTo(Links, MaxLinks)

\* query strings that occur in the URLs above, and the values of hash()
QUERIES == {<<"v=1">>}
HASHES == {0}

\* response headers of a GET: content-type absent or one of these values
CTYPES ==
  {<<"text/", "html">>, <<"application/", "pdf">>, <<"application/", "ms", "word">>,
   <<"application/", "vnd.openxmlformats-", "officedocument", ".wordprocessingml">>,
   <<"image/", "png">>}
HeaderSets == UNION {[D -> CTYPES] : D \in SUBSET {"content-type"}}

\* Content-Length reported by a HEAD: absent, unparsable by int(), or a number
MaxBytes == MAX_FILE_SIZE_MB * 1024 * 1024
ContentLengths ==
  {[present |-> FALSE, digits |-> FALSE, n |-> 0],
   [present |-> TRUE, digits |-> FALSE, n |-> 0]}
  \cup [present : {TRUE}, digits : {TRUE}, n : {0, MaxBytes, MaxBytes + 1, 20000000}]

\* sitemaps
SM1 == <<"http", "://", "a.com", "/", "sitemap", ".xml">>
SM2 == <<"http", "://", "a.com", "/", "sm2", ".xml">>
SM3 == <<"http", "://", "a.com", "/", "sm3", ".xml">>
SitemapUrls == {SM1, SM2, SM3}

\* a sitemap document: fetch or parse failure, or its <url><loc> and
\* <sitemap><loc> entries
Failure == [ok |-> FALSE]
Doc(us, sms) == [ok |-> TRUE, urls |-> us, sitemaps |-> sms]

SitemapWorlds ==
  { [s \in SitemapUrls |-> Failure],
    [s \in SitemapUrls |-> IF s = SM1 THEN Doc(<<U_PNG, U_PDF>>, <<SM2>>) ELSE Failure],
    [s \in SitemapUrls |->
       CASE s = SM1 -> Doc(<<>>, <<SM2, SM3>>)
         [] s = SM2 -> Failure
         [] s = SM3 -> Doc(<<U_ABOUT, U_EXT>>, <<>>)],
    [s \in SitemapUrls |-> IF s = SM1 THEN Doc(<<>>, <<SM1>>) ELSE Failure],
    [s \in SitemapUrls |->
       CASE s = SM1 -> Doc(<<>>, <<SM2>>)
         [] s = SM2 -> Doc(<<>>, <<SM1>>)
         [] s = SM3 -> Failure],
    [s \in SitemapUrls |-> IF s = SM1 THEN Doc(<<U_ABOUT, U_ABOUT_F>>, <<>>) ELSE Failure],
    [s \in SitemapUrls |-> Doc(<<>>, <<>>)] }

\* depth of nested parse_sitemap calls at which Python raises RecursionError
RecursionLimit == 3

\* ------------------------------------------------------------------------
\* parse_sitemap
\* ------------------------------------------------------------------------
RECURSIVE ConcatAll(_)
ConcatAll(ss) == IF ss = <<>> THEN <<>> ELSE Head(ss) \o ConcatAll(Tail(ss))

\* parse_sitemap with the nested call of line 107 outside any try: a nested
\* sitemap that fails takes the results of its siblings with it
RECURSIVE parse_sitemap_NestedFailureAborts(_, _, _)
parse_sitemap_NestedFailureAborts(docs, sitemap_url, d) ==
  IF d > RecursionLimit THEN <<>>
  ELSE IF sitemap_url \notin DOMAIN docs \/ ~docs[sitemap_url].ok THEN <<>>
  ELSE LET doc == docs[sitemap_url]
       IN IF doc.urls # <<>> THEN doc.urls
          ELSE IF \E i \in 1..Len(doc.sitemaps) : ~docs[doc.sitemaps[i]].ok THEN <<>>
          ELSE ConcatAll([i \in 1..Len(doc.sitemaps) |->
                            parse_sitemap_NestedFailureAborts(docs, doc.sitemaps[i], d + 1)])

\* the list parse_sitemap(sitemap_url) returns in the world docs, called at
\* nesting level d; every exception, RecursionError included, yields []
RECURSIVE parse_sitemap(_, _, _)
parse_sitemap(docs, sitemap_url, d) ==
  IF d > RecursionLimit THEN <<>>
  ELSE IF sitemap_url \notin DOMAIN docs \/ ~docs[sitemap_url].ok THEN <<>>
  ELSE LET doc == docs[sitemap_url]
       IN IF doc.urls # <<>> THEN doc.urls
          ELSE ConcatAll([i \in 1..Len(doc.sitemaps) |->
                            parse_sitemap(docs, doc.sitemaps[i], d + 1)])

\* the requests.get calls of line 93 that parse_sitemap(sitemap_url) and its
\* nested calls make, in order; the call that raises RecursionError does so
\* before it reaches the network
RECURSIVE SitemapFetches(_, _, _)
SitemapFetches(docs, sitemap_url, d) ==
  IF d > RecursionLimit THEN <<>>
  ELSE IF sitemap_url \notin DOMAIN docs \/ ~docs[sitemap_url].ok THEN <<sitemap_url>>
  ELSE LET doc == docs[sitemap_url]
       IN IF doc.urls # <<>> THEN <<sitemap_url>>
          ELSE <<sitemap_url>> \o
               ConcatAll([i \in 1..Len(doc.sitemaps) |->
                            SitemapFetches(docs, doc.sitemaps[i], d + 1)])

\* ------------------------------------------------------------------------
\* State
\* ------------------------------------------------------------------------
VARIABLES
  pc,            \* position of the running script
  sitemap,       \* integrated.py:299, <<>> when left blank
  start_url,     \* integrated.py:300, <<>> when left blank
  sm_docs,       \* what the network answers for each sitemap URL
  sm_fetched,    \* sitemap URLs requested at line 93, in order
  seeds,         \* integrated.py:306-310
  domain,        \* integrated.py:315, start_domain of crawl
  max_depth,     \* integrated.py:302
  pyhash,        \* hash() of this process (str hashes are salted per process)
  visited, queue, link_db, crawled_meta,        \* locals of crawl
  cur,           \* the target dequeued at line 196 while its page is handled
  resp,          \* anchors of the response r while the link loop is due
  res_type,      \* <<the type of line 216>> while a document download is due
  head,          \* answer of the HEAD request of line 119 while the download is due
  last_depth,    \* depth of the target that last passed line 197, -1 before the first
  http_log,      \* requests issued, in order
  fs_writes,     \* files written under the content tree, with the URL written for
  disk_meta,     \* crawled_resources.json: NoFile, or File(list) once written
  disk_links,    \* link_db.json: NoFile, or File(list) once written
  pw_start_url, pw_max_depth,                   \* crawler.py:162-163
  pw_visited, pw_queue, pw_crawled_meta,        \* locals of crawl_playwright
  pw_cur,        \* the target dequeued at crawler.py:130 while its page is parsed
  pw_resp,       \* anchors of the rendered content while the parse is due
  pw_renders,    \* pages rendered by Playwright, in order
  pw_files,      \* files left under results_playwright/<domain>
  pw_disk_meta,  \* crawled_playwright.json: NoFile, or File(list) once written
  fn_url, fn_headers,    \* arguments of a call of get_resource_type
  fn_type,       \* what the call returned, None before it returns
  fn_name,       \* filename_for_url(fn_url) as the crawler's process computed it
  q_name,        \* filename_for_url(fn_url) as the process of query.py computes it
  q_db,          \* query.py: link_database, the link_db.json files read at start
  q_lookup,      \* query.py: the keys of text_lookup
  q_query,       \* query.py: the line read at line 233
  q_retrieved,   \* query.py: all_context_chunks of line 243
  q_calls        \* the contexts ask_gemini was called with for q_query

crawlVars == <<visited, queue, link_db, crawled_meta, cur, resp, res_type, head,
               last_depth, http_log, fs_writes, disk_meta, disk_links>>
inputVars == <<sitemap, start_url, sm_docs, sm_fetched, seeds, domain, max_depth, pyhash>>
pwVars == <<pw_start_url, pw_max_depth, pw_visited, pw_queue, pw_crawled_meta,
            pw_cur, pw_resp,
            pw_renders, pw_files, pw_disk_meta>>
qVars == <<q_db, q_lookup, q_query, q_retrieved, q_calls>>
fnVars == <<fn_url, fn_headers, fn_type, fn_name, q_name, qVars>>

\* query.py is not running
QIdle ==
  /\ q_db = <<>> /\ q_lookup = {} /\ q_query = <<>>
  /\ q_retrieved = <<>> /\ q_calls = <<>>
vars == <<pc, inputVars, crawlVars, pwVars, fnVars>>

\* a JSON file of the result tree: absent, or holding the list last dumped
NoFile == [exists |-> FALSE, data |-> <<>>]
File(obj) == [exists |-> TRUE, data |-> obj]

\* crawl(seeds, domain, max_depth=max_depth): follow_same_domain keeps its default
follow_same_domain == TRUE

\* the state the three scripts start from, before any input is read
Fresh ==
  /\ sitemap = <<>> /\ start_url = <<>>
  /\ sm_docs = [s \in SitemapUrls |-> Failure]
  /\ sm_fetched = <<>>
  /\ seeds = <<>> /\ domain = <<>> /\ max_depth = 2
  /\ visited = {} /\ queue = <<>> /\ link_db = <<>> /\ crawled_meta = <<>>
  /\ cur = None /\ resp = <<>> /\ res_type = None /\ head = None
  /\ last_depth = -1
  /\ http_log = <<>> /\ fs_writes = {}
  /\ disk_meta = NoFile /\ disk_links = NoFile
  /\ pw_start_url = <<>> /\ pw_max_depth = 1
  /\ pw_visited = {} /\ pw_queue = <<>> /\ pw_crawled_meta = <<>>
  /\ pw_cur = None /\ pw_resp = <<>>
  /\ pw_renders = <<>> /\ pw_files = {} /\ pw_disk_meta = NoFile

Init ==
  /\ pc = "start"
  /\ Fresh
  /\ pyhash \in [QUERIES -> HASHES]
  /\ fn_url = <<>> /\ fn_headers = <<>> /\ fn_type = None
  /\ fn_name = <<>> /\ q_name = <<>>
  /\ QIdle

\* ------------------------------------------------------------------------
\* filename_for_url and the paths of the content tree
\* ------------------------------------------------------------------------
\* abs()
Abs(n) == IF n < 0 THEN -n ELSE n

\* the decimal digits an f-string prints for a small number
DecStr(n) == <<"0", "1", "2", "3", "4", "5", "6", "7", "8", "9">>[n + 1]

\* lines 64-70 in an interpreter whose hash() is the function h
FilenameUnder(h, url) ==
  LET parsed == urlparse(url)
      stripped == StripSlash(parsed.path)
      path == IF stripped = <<>> THEN <<"root">> ELSE stripped
      safe == [i \in 1..Len(path) |-> SanitizeTok(path[i])]
  IN IF parsed.query # <<>>
     THEN safe \o <<"_q", DecStr((Abs(h[parsed.query])) % 100000)>>
     ELSE safe

\* filename_for_url as the running crawler evaluates it
filename_for_url(url) == FilenameUnder(pyhash, url)

RawPath(url) == <<"raw", "/">> \o filename_for_url(url) \o <<".html">>
OutJsonPath(url) == filename_for_url(url) \o <<"-output.json">>
DestPath(url, rtype) ==
  LET e == Splitext1(urlparse(url).path)
      ext == IF e # <<>> THEN e ELSE <<".", rtype>>
  IN <<"files", "/">> \o filename_for_url(url) \o ext
ParsedPath(url) == <<"files", "/">> \o filename_for_url(url) \o <<"-parsed.json">>

FileWrite(path, url) == [path |-> path, url |-> url]

\* ------------------------------------------------------------------------
\* Entrypoint of integrated.py (lines 298-316) up to the first loop test
\* ------------------------------------------------------------------------
StartUrls == {<<>>, U_ROOT, U_PNG, U_PNG_Q, U_PNG_F, U_PORT}
SitemapInputs == {<<>>, SM1}
DepthInputs == (-1)..MaxDepthInput

\* lines 306-310 without the fallback of lines 309-310
SeedsFor_NoFallback(docs, sm, su) ==
  IF sm # <<>> THEN parse_sitemap(docs, sm, 1) ELSE <<>>

SeedsFor(docs, sm, su) ==
  LET fromMap == IF sm # <<>> THEN parse_sitemap(docs, sm, 1) ELSE <<>>
  IN IF fromMap = <<>> /\ su # <<>> THEN <<su>> ELSE fromMap

Target(u, d, p, a) == [url |-> u, depth |-> d, parent |-> p, anchor |-> a]

\* lines 298-310: the three answers are read and the seed list is resolved
\* against what the network serves for the sitemap URLs
ResolveSeeds ==
  /\ pc = "start"
  /\ \E sm \in SitemapInputs, su \in StartUrls, md \in DepthInputs, docs \in SitemapWorlds :
       /\ sitemap' = sm /\ start_url' = su /\ max_depth' = md
       /\ sm_docs' = IF sm = <<>> THEN sm_docs ELSE docs
       /\ sm_fetched' = IF sm = <<>> THEN <<>> ELSE SitemapFetches(docs, sm, 1)
       /\ seeds' = SeedsFor(docs, sm, su)
  /\ pc' = "seeded"
  /\ UNCHANGED <<domain, pyhash, crawlVars, pwVars>>
  /\ UNCHANGED fnVars

\* lines 311-316 without the test of lines 311-313: crawl is entered whatever
\* the seed list holds
CallCrawl_NoSeedCheck ==
  /\ pc = "seeded"
  /\ pc' = "crawl"
  /\ domain' = IF seeds = <<>> THEN <<>> ELSE urlparse(seeds[1]).netloc
  /\ queue' = [i \in 1..Len(seeds) |-> Target(seeds[i], 0, None, None)]
  /\ sitemap' = <<>> /\ start_url' = <<>>
  /\ sm_docs' = [s \in SitemapUrls |-> Failure]
  /\ sm_fetched' = <<>>
  /\ UNCHANGED <<last_depth, seeds, max_depth, pyhash, visited, link_db, crawled_meta, cur, resp,
                 res_type, head, http_log, fs_writes, disk_meta, disk_links, pwVars>>
  /\ UNCHANGED fnVars

\* lines 311-316 and 184-193: exit(1) without seeds, else crawl is entered
\* with its queue built from the seeds.  Nothing reads the two answers or the
\* sitemap responses after this point; they leave the state here.
CallCrawl ==
  /\ pc = "seeded"
  /\ IF seeds = <<>>
     THEN /\ pc' = "exit1"
          /\ UNCHANGED <<domain, queue>>
     ELSE /\ pc' = "crawl"
          /\ domain' = urlparse(seeds[1]).netloc
          /\ queue' = [i \in 1..Len(seeds) |-> Target(seeds[i], 0, None, None)]
  /\ sitemap' = <<>> /\ start_url' = <<>>
  /\ sm_docs' = [s \in SitemapUrls |-> Failure]
  /\ sm_fetched' = <<>>
  /\ UNCHANGED <<last_depth, seeds, max_depth, pyhash, visited, link_db, crawled_meta, cur, resp,
                 res_type, head, http_log, fs_writes, disk_meta, disk_links, pwVars>>
  /\ UNCHANGED fnVars

\* ------------------------------------------------------------------------
\* crawl (integrated.py:184-294): one action per way through the loop body
\* ------------------------------------------------------------------------
\* requests.get of line 214, requests.get(stream=True) of line 134 and
\* requests.head of line 119
Get(url) == [method |-> "GET", url |-> url, stream |-> FALSE]
GetStream(url) == [method |-> "GET", url |-> url, stream |-> TRUE]
HeadReq(url) == [method |-> "HEAD", url |-> url, stream |-> FALSE]

\* line 197 without `url in visited`
Discarded_NoVisitedCheck == Head(queue).depth > max_depth

\* line 197 without `depth > max_depth`
Discarded_NoDepthCheck == Head(queue).url \in visited

\* the test of line 197 on the target at the head of the queue
Dequeued == Head(queue)
Discarded == Dequeued.url \in visited \/ Dequeued.depth > max_depth

\* lines 195-198 with the dropped target put back at the end of the queue
Discard_Requeue ==
  /\ pc = "crawl" /\ queue # <<>>
  /\ Head(queue).url \in visited \/ Head(queue).depth > max_depth
  /\ queue' = Append(Tail(queue), Head(queue))
  /\ UNCHANGED <<last_depth, pc, inputVars, visited, link_db, crawled_meta, cur, resp, res_type,
                 head, http_log, fs_writes, disk_meta, disk_links, pwVars>>
  /\ UNCHANGED fnVars

\* lines 195-198 with the dropped target noted in link_db, as lines 206-210
\* do for a skipped one
Discard_Noted ==
  /\ pc = "crawl" /\ queue # <<>>
  /\ Head(queue).url \in visited \/ Head(queue).depth > max_depth
  /\ queue' = Tail(queue)
  /\ link_db' = Append(link_db,
                       [parent |-> Head(queue).parent, child |-> Head(queue).url,
                        depth |-> Head(queue).depth, anchor |-> Head(queue).anchor,
                        note |-> <<"discarded">>])
  /\ UNCHANGED <<last_depth, pc, inputVars, visited, crawled_meta, cur, resp, res_type, head,
                 http_log, fs_writes, disk_meta, disk_links, pwVars>>
  /\ UNCHANGED fnVars

\* lines 195-198: a target already visited or too deep is dropped
Discard ==
  /\ pc = "crawl" /\ queue # <<>>
  /\ Discarded
  /\ queue' = Tail(queue)
  /\ UNCHANGED <<last_depth, pc, inputVars, visited, link_db, crawled_meta, cur, resp, res_type, head, http_log,
                 fs_writes, disk_meta, disk_links, pwVars>>
  /\ UNCHANGED fnVars

\* lines 199-211: a URL with a skip extension is noted in link_db, not fetched
SkipNonText ==
  /\ pc = "crawl" /\ queue # <<>>
  /\ last_depth' = Dequeued.depth
  /\ ~Discarded
  /\ IsSkipUrl(Dequeued.url)
  /\ queue' = Tail(queue)
  /\ visited' = visited \cup {Dequeued.url}
  /\ link_db' = Append(link_db,
                       [parent |-> Dequeued.parent, child |-> Dequeued.url,
                        depth |-> Dequeued.depth, anchor |-> Dequeued.anchor,
                        note |-> <<"skipped_non_text">>])
  /\ UNCHANGED <<pc, inputVars, crawled_meta, cur, resp, res_type, head, http_log,
                 fs_writes, disk_meta, disk_links, pwVars>>
  /\ UNCHANGED fnVars

\* lines 213-215 with the exception left uncaught: the script ends
FetchFail_Abort ==
  /\ pc = "crawl" /\ queue # <<>>
  /\ last_depth' = Head(queue).depth
  /\ ~(Head(queue).url \in visited \/ Head(queue).depth > max_depth)
  /\ ~IsSkipUrl(Head(queue).url)
  /\ queue' = Tail(queue)
  /\ visited' = visited \cup {Head(queue).url}
  /\ http_log' = Append(http_log, Get(Head(queue).url))
  /\ pc' = "crashed"
  /\ UNCHANGED <<inputVars, link_db, crawled_meta, cur, resp, res_type, head,
                 fs_writes, disk_meta, disk_links, pwVars>>
  /\ UNCHANGED fnVars

\* lines 213-215 and 289-290: requests.get or raise_for_status raises
FetchFail ==
  /\ pc = "crawl" /\ queue # <<>>
  /\ last_depth' = Dequeued.depth
  /\ ~Discarded
  /\ ~IsSkipUrl(Dequeued.url)
  /\ queue' = Tail(queue)
  /\ visited' = visited \cup {Dequeued.url}
  /\ http_log' = Append(http_log, Get(Dequeued.url))
  /\ UNCHANGED <<pc, inputVars, link_db, crawled_meta, cur, resp, res_type, head,
                 fs_writes, disk_meta, disk_links, pwVars>>
  /\ UNCHANGED fnVars

\* lines 218-222
Record(t, rtype, saved, note) ==
  [url |-> t.url, depth |-> t.depth, type |-> rtype, parent |-> t.parent,
   anchor |-> t.anchor, status |-> 200, saved |-> saved, note |-> note]

\* lines 248-253 without the same-domain test of line 252
KeptLink_AnyDomain(url, link) ==
  urlparse(urljoin(url, link.href)).scheme \in {"http", "https"}

\* lines 248-253: the anchor survives the scheme and same-domain filters
AbsUrl(url, link) == urljoin(url, link.href)
KeptLink(url, link) ==
  LET parsed == urlparse(AbsUrl(url, link))
  IN /\ parsed.scheme \in {"http", "https"}
     /\ ~(follow_same_domain /\ parsed.netloc # domain)

\* lines 254-257: the edges appended for the anchors body[1..n] of page t.url
RECURSIVE EdgesOf(_, _, _)
EdgesOf(t, body, n) ==
  IF n = 0 THEN <<>>
  ELSE LET rest == EdgesOf(t, body, n - 1)
       IN IF KeptLink(t.url, body[n])
          THEN Append(rest, [parent |-> t.url, child |-> AbsUrl(t.url, body[n]),
                             depth |-> t.depth + 1, anchor |-> body[n].text,
                             note |-> None])
          ELSE rest

\* lines 258-259: the targets appended, vis being visited during the loop
RECURSIVE EnqueuedOf(_, _, _, _)
EnqueuedOf(t, body, n, vis) ==
  IF n = 0 THEN <<>>
  ELSE LET rest == EnqueuedOf(t, body, n - 1, vis)
       IN IF KeptLink(t.url, body[n]) /\ AbsUrl(t.url, body[n]) \notin vis
          THEN Append(rest, Target(AbsUrl(t.url, body[n]), t.depth + 1, t.url,
                                   body[n].text))
          ELSE rest

\* lines 284-286: append the record, then rewrite both snapshots; a failing
\* save_json raises into the handler of line 291 and leaves its file as it was
Persist(record, links, how) ==
  /\ crawled_meta' = Append(crawled_meta, record)
  /\ disk_meta' = IF how = "meta_fail" THEN disk_meta
                ELSE File(Append(crawled_meta, record))
  /\ disk_links' = IF how = "ok" THEN File(links) ELSE disk_links

PersistOutcomes == {"ok", "meta_fail", "links_fail"}

\* lines 231-240 without the handler's save_json of lines 238-240: a failed
\* extraction leaves only the raw body in record["saved"]
SavedHtml_NoFallback(url, extract) ==
  [k \in (IF extract = "ok" THEN {"raw_html", "parsed_json"} ELSE {"raw_html"}) |->
     IF k = "raw_html" THEN RawPath(url) ELSE OutJsonPath(url)]

\* lines 231-240: both branches of the extraction leave the same path in
\* record["saved"]; extract is "ok" when partition_html and elements_to_json
\* succeed and "parse_error" when they raise and the fallback save_json succeeds
SavedHtml(url, extract) ==
  [k \in {"raw_html", "parsed_json"} |->
     IF k = "raw_html" THEN RawPath(url)
     ELSE IF extract = "ok" THEN OutJsonPath(url) ELSE OutJsonPath(url)]

\* lines 213-240: a response classified as html; its raw body and the
\* extractor's output are stored, the link loop is due next
FetchHtml ==
  /\ pc = "crawl" /\ queue # <<>>
  /\ last_depth' = Dequeued.depth
  /\ ~Discarded
  /\ ~IsSkipUrl(Dequeued.url)
  /\ \E headers \in HeaderSets : get_resource_type(Dequeued.url, headers) = "html"
  /\ LET t == Dequeued
     IN /\ visited' = visited \cup {t.url}
        /\ http_log' = Append(http_log, Get(t.url))
        /\ queue' = Tail(queue)
        /\ \/ \* open(raw_path) raises (lines 226-228): handler of line 291
              /\ UNCHANGED <<pc, cur, resp, fs_writes>>
           \/ \* extraction and its fallback save_json raise: handler of line 291
              /\ fs_writes' = fs_writes \cup {FileWrite(RawPath(t.url), t.url)}
              /\ UNCHANGED <<pc, cur, resp>>
           \/ \E body \in Bodies :
                /\ fs_writes' = fs_writes \cup {FileWrite(RawPath(t.url), t.url),
                                               FileWrite(OutJsonPath(t.url), t.url)}
                /\ cur' = t
                /\ resp' = body
                /\ pc' = "links"
  /\ UNCHANGED <<inputVars, link_db, crawled_meta, res_type, head, disk_meta,
                 disk_links, pwVars>>
  /\ UNCHANGED fnVars

\* the anchors the loop of line 245 handles before urljoin or urlparse raises
Handled(url, body) ==
  LET bad == {i \in 1..Len(body) : UrlRaises(urljoin(url, body[i].href))}
  IN IF bad = {} THEN Len(body)
     ELSE (CHOOSE i \in bad : \A j \in bad : i <= j) - 1

\* lines 243-261 and 284-287 with the new targets put at the front of the
\* queue (queue.insert(0, ...) order) in place of line 259's append
ParseLinks_Prepend ==
  /\ pc = "links"
  /\ \E saved \in {SavedHtml(cur.url, e) : e \in {"ok", "parse_error"}},
        how \in PersistOutcomes :
       LET n == Handled(cur.url, resp)
           edges == EdgesOf(cur, resp, n)
       IN /\ link_db' = link_db \o edges
          /\ queue' = EnqueuedOf(cur, resp, n, visited) \o queue
          /\ Persist(Record(cur, "html", saved, None), link_db \o edges, how)
  /\ pc' = "crawl"
  /\ cur' = None /\ resp' = <<>>
  /\ UNCHANGED <<last_depth, inputVars, visited, res_type, head, http_log, fs_writes, pwVars>>
  /\ UNCHANGED fnVars

\* lines 243-261 and 284-287: the link loop over the anchors of the page,
\* then the record is appended and both snapshots are rewritten
ParseLinks ==
  /\ pc = "links"
  /\ \E saved \in {SavedHtml(cur.url, e) : e \in {"ok", "parse_error"}},
        how \in PersistOutcomes :
       LET n == Handled(cur.url, resp)
           edges == EdgesOf(cur, resp, n)
       IN /\ link_db' = link_db \o edges
          /\ queue' = queue \o EnqueuedOf(cur, resp, n, visited)
          /\ Persist(Record(cur, "html", saved, None), link_db \o edges, how)
  /\ pc' = "crawl"
  /\ cur' = None /\ resp' = <<>>
  /\ UNCHANGED <<last_depth, inputVars, visited, res_type, head, http_log, fs_writes, pwVars>>
  /\ UNCHANGED fnVars

\* answers of the HEAD request: requests.head raises, or a response whose
\* Content-Length is absent, unparsable or a number
HeadAnswers == [ok : BOOLEAN, size : ContentLengths]

\* check_file_size_ok with `return False` in the handler of lines 125-126
check_file_size_ok_FailClosed(h) ==
  IF ~h.ok THEN FALSE
  ELSE IF ~h.size.present THEN TRUE
  ELSE IF ~h.size.digits THEN FALSE
  ELSE ~(h.size.n > MAX_FILE_SIZE_MB * 1024 * 1024)

\* line 121 with >= in place of >
check_file_size_ok_AtCap(h) ==
  IF ~h.ok THEN TRUE
  ELSE IF ~h.size.present THEN TRUE
  ELSE IF ~h.size.digits THEN TRUE
  ELSE ~(h.size.n >= MAX_FILE_SIZE_MB * 1024 * 1024)

\* check_file_size_ok (lines 117-126) on the answer h of the HEAD request
check_file_size_ok(h) ==
  IF ~h.ok THEN TRUE                          \* requests.head raises
  ELSE IF ~h.size.present THEN TRUE
  ELSE IF ~h.size.digits THEN TRUE            \* int(size) raises ValueError
  ELSE ~(h.size.n > MAX_FILE_SIZE_MB * 1024 * 1024)

\* download_binary (lines 129-141) after the HEAD was answered by h
\*   get  what the streamed GET does: "ok", "error" (it raises before a byte
\*        is written to dest) or "partial" (it raises after some were)
\*   got  the streamed GET was issued, wrote  dest received bytes
download_binary(h, get) ==
  IF ~check_file_size_ok(h)
  THEN [ok |-> FALSE, status |-> "too_large", wrote |-> FALSE, got |-> FALSE]
  ELSE IF get = "ok"
  THEN [ok |-> TRUE, status |-> "downloaded", wrote |-> TRUE, got |-> TRUE]
  ELSE [ok |-> FALSE, status |-> "error", wrote |-> (get = "partial"), got |-> TRUE]

\* lines 265-282: the record's saved map and note after download_binary
SavedDoc(url, dl) ==
  [k \in (IF dl.ok /\ dl.status = "downloaded"
          THEN {"download_status", "parsed_text"} ELSE {"download_status"}) |->
     IF k = "download_status" THEN <<dl.status>> ELSE ParsedPath(url)]

NoteDoc(dl) ==
  IF dl.ok /\ dl.status = "downloaded" THEN None
  ELSE IF dl.status = "too_large" THEN <<"Skipped (>10 MB)">>
  ELSE <<"Download failed">>

\* lines 213-222, 264-267 and 119-120: a response classified as pdf, docx or
\* doc; download_binary is entered and the HEAD request is answered
FetchDocument ==
  /\ pc = "crawl" /\ queue # <<>>
  /\ last_depth' = Dequeued.depth
  /\ ~Discarded
  /\ ~IsSkipUrl(Dequeued.url)
  /\ \E rt \in {get_resource_type(Dequeued.url, h) : h \in HeaderSets},
        h \in HeadAnswers :
       /\ rt \in {"pdf", "docx", "doc"}
       /\ res_type' = <<rt>>
       /\ head' = h
  /\ cur' = Dequeued
  /\ queue' = Tail(queue)
  /\ visited' = visited \cup {Dequeued.url}
  /\ http_log' = http_log \o <<Get(Dequeued.url), HeadReq(Dequeued.url)>>
  /\ pc' = "download"
  /\ UNCHANGED <<inputVars, link_db, crawled_meta, resp, fs_writes, disk_meta,
                 disk_links, pwVars>>
  /\ UNCHANGED fnVars

\* lines 121-141 and 268-287: the size decision, the streamed download, the
\* parser and the sidecar, then the record and both snapshots
\*   parsed_ok  save_json of the parsed text succeeds (line 277)
DownloadDocument ==
  /\ pc = "download"
  /\ \E dl \in {download_binary(head, get) : get \in {"ok", "error", "partial"}},
        parsed_ok \in BOOLEAN, how \in PersistOutcomes :
       LET dest == DestPath(cur.url, res_type[1])
           done == dl.ok /\ dl.status = "downloaded"
       IN /\ http_log' = http_log \o (IF dl.got THEN <<GetStream(cur.url)>> ELSE <<>>)
          /\ IF done /\ ~parsed_ok
             THEN /\ fs_writes' = fs_writes \cup {FileWrite(dest, cur.url)}
                  /\ UNCHANGED <<crawled_meta, disk_meta, disk_links>>
             ELSE /\ fs_writes' = fs_writes
                       \cup (IF dl.wrote THEN {FileWrite(dest, cur.url)} ELSE {})
                       \cup (IF done THEN {FileWrite(ParsedPath(cur.url), cur.url)} ELSE {})
                  /\ Persist(Record(cur, res_type[1], SavedDoc(cur.url, dl), NoteDoc(dl)),
                             link_db, how)
  /\ pc' = "crawl"
  /\ cur' = None /\ res_type' = None /\ head' = None
  /\ UNCHANGED <<last_depth, inputVars, visited, queue, link_db, resp, pwVars>>
  /\ UNCHANGED fnVars

\* lines 294 and 316-319: the queue is empty, crawl returns and the
\* entrypoint saves both lists once more; a failing save ends the script
\* with a traceback
CrawlReturn ==
  /\ pc = "crawl" /\ queue = <<>>
  /\ \E how \in PersistOutcomes :
       /\ pc' = IF how = "ok" THEN "done" ELSE "crashed"
       /\ disk_meta' = IF how = "meta_fail" THEN disk_meta ELSE File(crawled_meta)
       /\ disk_links' = IF how = "ok" THEN File(link_db) ELSE disk_links
  /\ UNCHANGED <<last_depth, inputVars, visited, queue, link_db, crawled_meta, cur, resp,
                 res_type, head, http_log, fs_writes, pwVars>>
  /\ UNCHANGED fnVars

CrawlNext ==
  \/ ResolveSeeds \/ CallCrawl \/ Discard \/ SkipNonText \/ FetchFail
  \/ FetchHtml \/ ParseLinks \/ FetchDocument \/ DownloadDocument \/ CrawlReturn

\* ------------------------------------------------------------------------
\* crawler.py: crawl_playwright and render_and_parse_page
\* ------------------------------------------------------------------------
PwStartUrls == {U_ROOT, U_ABOUT}
PwTarget(u, d) == [url |-> u, depth |-> d]
PwDequeued == Head(pw_queue)
PwDiscarded == PwDequeued.url \in pw_visited \/ PwDequeued.depth > pw_max_depth

\* crawler.py:118, the netloc of the start URL
parsed_domain == urlparse(pw_start_url).netloc

\* crawler.py:161-164 and 116-126
PwEntrypoint ==
  /\ pc = "start"
  /\ \E su \in PwStartUrls, md \in 0..MaxDepthInput :
       /\ pw_start_url' = su /\ pw_max_depth' = md
       /\ pw_queue' = <<PwTarget(su, 0)>>
  /\ pc' = "pw_crawl"
  /\ UNCHANGED <<inputVars, crawlVars, pw_visited, pw_crawled_meta, pw_cur, pw_resp,
                 pw_renders, pw_files, pw_disk_meta>>
  /\ UNCHANGED fnVars

\* crawler.py:129-132
PwDiscard ==
  /\ pc = "pw_crawl" /\ pw_queue # <<>>
  /\ PwDiscarded
  /\ pw_queue' = Tail(pw_queue)
  /\ UNCHANGED <<pc, inputVars, crawlVars, pw_start_url, pw_max_depth, pw_visited,
                 pw_crawled_meta, pw_cur, pw_resp, pw_renders, pw_files, pw_disk_meta>>
  /\ UNCHANGED fnVars

PwTmpPath(url) == <<"tmp", "/">> \o filename_for_url(url) \o <<".html">>

\* crawler.py:142-149: the links appended to the queue
RECURSIVE PwEnqueuedOf(_, _, _, _)
PwEnqueuedOf(t, links, n, vis) ==
  IF n = 0 THEN <<>>
  ELSE LET rest == PwEnqueuedOf(t, links, n - 1, vis)
           parsed == urlparse(links[n])
       IN IF /\ parsed.scheme \in {"http", "https"}
             /\ ~(follow_same_domain /\ parsed.netloc # parsed_domain)
             /\ links[n] \notin vis
          THEN Append(rest, PwTarget(links[n], t.depth + 1))
          ELSE rest

\* crawler.py:108-113: the list render_and_parse_page returns for a page
PwLinks(url, body) == [i \in 1..Len(body) |-> urljoin(url, body[i].href)]

\* crawler.py:129-137 and 83-94: the target is marked visited and its page
\* rendered; launch, goto, content or the write of the tmp file may raise
\* into the handler of line 150, which leaves no record
PwRender ==
  /\ pc = "pw_crawl" /\ pw_queue # <<>>
  /\ ~PwDiscarded
  /\ pw_visited' = pw_visited \cup {PwDequeued.url}
  /\ pw_renders' = Append(pw_renders, PwDequeued.url)
  /\ pw_queue' = Tail(pw_queue)
  /\ \/ UNCHANGED <<pc, pw_cur, pw_resp, pw_files>>
     \/ \E body \in Bodies :
          /\ pw_cur' = PwDequeued
          /\ pw_resp' = body
          /\ pw_files' = pw_files \cup {PwTmpPath(PwDequeued.url)}
          /\ pc' = "pw_parse"
  /\ UNCHANGED <<inputVars, crawlVars, pw_start_url, pw_max_depth, pw_crawled_meta,
                 pw_disk_meta>>
  /\ UNCHANGED fnVars

\* crawler.py:96-113 and 138-151: the rest of render_and_parse_page, then the
\* record and the enqueue loop
\*   extracted = FALSE  partition_html or elements_to_json raises: the tmp
\*                      file stays and [] is returned (lines 103-105)
\*   extracted = TRUE   the output is written and the tmp file removed; the
\*                      loop of lines 110-112 returns the links, or urljoin
\*                      raises on a malformed href into the handler of line 150
PwProcess ==
  /\ pc = "pw_parse"
  /\ \E extracted \in BOOLEAN :
       LET t == pw_cur
           raises == Handled(t.url, pw_resp) < Len(pw_resp)
           links == IF extracted THEN PwLinks(t.url, pw_resp) ELSE <<>>
       IN /\ pw_files' = IF extracted
                         THEN (pw_files \ {PwTmpPath(t.url)}) \cup {OutJsonPath(t.url)}
                         ELSE pw_files
          /\ IF extracted /\ raises
             THEN UNCHANGED <<pw_queue, pw_crawled_meta>>
             ELSE /\ pw_crawled_meta' = Append(pw_crawled_meta, PwTarget(t.url, t.depth))
                  /\ pw_queue' = pw_queue \o PwEnqueuedOf(t, links, Len(links), pw_visited)
  /\ pc' = "pw_crawl"
  /\ pw_cur' = None /\ pw_resp' = <<>>
  /\ UNCHANGED <<inputVars, crawlVars, pw_start_url, pw_max_depth, pw_visited,
                 pw_renders, pw_disk_meta>>
  /\ UNCHANGED fnVars

\* crawler.py:153-157
PwFinish ==
  /\ pc = "pw_crawl" /\ pw_queue = <<>>
  /\ \E ok \in BOOLEAN :
       /\ pc' = IF ok THEN "pw_done" ELSE "crashed"
       /\ pw_disk_meta' = IF ok THEN File(pw_crawled_meta) ELSE pw_disk_meta
  /\ UNCHANGED <<inputVars, crawlVars, pw_start_url, pw_max_depth, pw_visited,
                 pw_queue, pw_crawled_meta, pw_cur, pw_resp, pw_renders, pw_files>>
  /\ UNCHANGED fnVars

PwNext == PwEntrypoint \/ PwDiscard \/ PwRender \/ PwProcess \/ PwFinish

\* ------------------------------------------------------------------------
\* Specification
\* ------------------------------------------------------------------------
Next == CrawlNext \/ PwNext

Spec == Init /\ [][Next]_vars

\* A script that can take a step takes one: the interpreter runs the loop on.
\* The link loop runs over the finitely many anchors of one page: it is
\* enabled exactly at pc = "links" and every ParseLinks step leaves that
\* position, so its weak fairness is the statement that the script is not at
\* pc = "links" for ever.
Steps ==
  \/ ResolveSeeds \/ CallCrawl \/ Discard \/ SkipNonText \/ FetchFail
  \/ FetchHtml \/ FetchDocument \/ DownloadDocument \/ CrawlReturn \/ PwNext

FairSpec == Init /\ [][Next]_vars /\ WF_vars(Steps) /\ []<>(pc # "links")

\* ------------------------------------------------------------------------
\* get_resource_type as a function of its arguments
\* ------------------------------------------------------------------------
U_PDF_UP == <<"http", "://", "a.com", "/", "doc", ".PDF">>
U_PDF_Q == <<"http", "://", "a.com", "/", "doc", ".pdf", "?", "v=1">>
U_PDF_F == <<"http", "://", "a.com", "/", "doc", ".pdf", "#", "top">>
U_DOCX == <<"http", "://", "a.com", "/", "cv", ".docx">>
U_DOC == <<"http", "://", "a.com", "/", "cv", ".doc">>
TypeUrls ==
  {U_ROOT, U_ABOUT, U_PDF, U_PDF_UP, U_PDF_Q, U_PDF_F, U_DOCX, U_DOC, U_PNG_Q, U_EXT}

InitTypes ==
  /\ pc = "classify"
  /\ Fresh
  /\ pyhash \in [QUERIES -> HASHES]
  /\ fn_url \in TypeUrls
  /\ fn_headers \in HeaderSets
  /\ fn_type = None
  /\ fn_name = <<>> /\ q_name = <<>>
  /\ QIdle

\* line 216: res_type = get_resource_type(url, r.headers)
Classify ==
  /\ pc = "classify"
  /\ fn_type' = <<get_resource_type(fn_url, fn_headers)>>
  /\ pc' = "classified"
  /\ UNCHANGED <<fn_url, fn_headers, fn_name, q_name, qVars, inputVars, crawlVars, pwVars>>

NextTypes == Classify

SpecTypes == InitTypes /\ [][NextTypes]_vars

\* ------------------------------------------------------------------------
\* filename_for_url in the crawler's process and in the process of query.py
\* ------------------------------------------------------------------------
\* values hash() gives a query string; the salt of str hashes is drawn anew
\* by every interpreter, so two processes need not agree
NameHashes == {-1, 0, 1, 2}
NameUrls ==
  {U_ROOT, U_ABOUT, U_ABOUT_F, U_PDF, U_PDF_Q, U_PDF_F, U_PNG_Q, U_PORT, U_EXT}

InitNames ==
  /\ pc = "name"
  /\ Fresh
  /\ pyhash \in [QUERIES -> NameHashes]
  /\ fn_url \in NameUrls
  /\ fn_headers = <<>> /\ fn_type = None
  /\ fn_name = <<>> /\ q_name = <<>>
  /\ QIdle

\* integrated.py:217: fname = filename_for_url(url), the token the content
\* of the URL is stored under
StoreName ==
  /\ pc = "name"
  /\ fn_name' = filename_for_url(fn_url)
  /\ pc' = "stored"
  /\ UNCHANGED <<fn_url, fn_headers, fn_type, q_name, qVars, inputVars, crawlVars, pwVars>>

\* query.py:129-134 with 37-44: a later interpreter, with its own hash(),
\* computes the token of the same URL read back from link_db
LookupName ==
  /\ pc = "stored"
  /\ pyhash' \in [QUERIES -> NameHashes]
  /\ q_name' = FilenameUnder(pyhash', fn_url)
  /\ pc' = "looked_up"
  /\ UNCHANGED <<fn_url, fn_headers, fn_type, fn_name, qVars, sitemap, start_url, sm_docs,
                 sm_fetched, seeds, domain, max_depth, crawlVars, pwVars>>

NextNames == StoreName \/ LookupName

SpecNames == InitNames /\ [][NextNames]_vars

\* ------------------------------------------------------------------------
\* query.py: the query loop and find_links_and_load_text
\* ------------------------------------------------------------------------
\* distances are held in hundredths: 1.25 and the 999.0 of line 143
POOR_MATCH_THRESHOLD == 125
LINK_DISTANCE == 99900
DEFAULT_MAX_LINKS == 3

\* a context chunk (lines 108-112 and 142-146); child is the URL a
\* link-fallback chunk was loaded for, which the code keeps in found_urls
Chunk(src, text, d, child) ==
  [source_file |-> src, text |-> text, distance |-> d, child |-> child]

\* what index.search may return: chunks of the metadata in ascending distance
QTexts == {<<"about">>, <<"root">>}
DISTANCES == {50, 125, 200}
RetrievedChunks == {Chunk(t, t, d, None) : t \in QTexts, d \in DISTANCES}
Retrievals ==
  {r \in SeqsUpTo(RetrievedChunks, MaxTopK) :
     \A i \in 1..(Len(r) - 1) : r[i].distance <= r[i + 1].distance}

\* link_db.json files the crawler may have left, and the keys of text_lookup
Edge(parent, child, anchor) ==
  [parent |-> parent, child |-> child, depth |-> 1, anchor |-> anchor, note |-> None]
DB_FOUR ==
  <<Edge(U_ROOT, U_ABOUT, <<"About">>), Edge(U_ROOT, U_PDF, <<"About">>),
    Edge(U_ROOT, U_EXT, <<"About">>), Edge(U_ABOUT, U_ROOT, <<"About">>)>>
DB_REPEAT ==
  <<Edge(U_ROOT, U_ABOUT, <<"About">>), Edge(U_PDF, U_ABOUT, <<"About">>),
    Edge(U_ROOT, U_PDF, None)>>
DB_ODD ==
  <<Edge(None, <<>>, <<"About">>), Edge(U_ROOT, U_EXT, None),
    Edge(U_ROOT, U_ABOUT, None)>>
LinkDatabases == {<<>>, DB_FOUR, DB_REPEAT, DB_ODD}
Lookups ==
  {{}, {<<"about">>}, {<<"about">>, <<"root">>, <<"doc", ".pdf">>, <<"x">>}}

\* lines typed at the prompt, as their words
Queries == {<<"exit">>, <<>>, <<"about">>, <<"zzz">>, <<"doc", "zzz">>}

\* line 126: query.lower().split()
Keywords(query) == lower(query)

\* line 138: a keyword occurs in the anchor or in the child URL
LinkMatches(keywords, link) ==
  \E k \in 1..Len(keywords) :
    \/ keywords[k] \in Range(lower(link.anchor))
    \/ keywords[k] \in Range(lower(link.child))

\* line 149 without the break: the loop runs over every link
LinkCapReached_Never(chunks, max_links) == FALSE

\* line 149: len(context_chunks) >= max_links
LinkCapReached(chunks, max_links) == Len(chunks) >= max_links

\* lines 130-150: the loop from link i on, with context_chunks and found_urls
RECURSIVE FindFrom(_, _, _, _, _, _, _)
FindFrom(keywords, db, lookup, max_links, i, chunks, found) ==
  IF i > Len(db) THEN chunks
  ELSE LET link == db[i]
           child_url == link.child
       IN IF child_url = <<>> \/ child_url \in found
          THEN FindFrom(keywords, db, lookup, max_links, i + 1, chunks, found)
          ELSE IF ~LinkMatches(keywords, link)
          THEN FindFrom(keywords, db, lookup, max_links, i + 1, chunks, found)
          ELSE LET filename_base == filename_for_url(child_url)
                   hit == filename_base \in lookup
                   chunks2 == IF hit
                              THEN Append(chunks,
                                          Chunk(<<"Linked from">> \o link.parent,
                                                filename_base, LINK_DISTANCE, child_url))
                              ELSE chunks
                   found2 == IF hit THEN found \cup {child_url} ELSE found
               IN IF LinkCapReached(chunks2, max_links) THEN chunks2
                  ELSE FindFrom(keywords, db, lookup, max_links, i + 1, chunks2, found2)

\* find_links_and_load_text (lines 119-151)
find_links_and_load_text(query, link_database, text_lookup, max_links) ==
  FindFrom(Keywords(query), link_database, text_lookup, max_links, 1, <<>>, {})

\* lines 250-253
GoodChunks(chunks) ==
  LET keep == {i \in 1..Len(chunks) : chunks[i].distance < POOR_MATCH_THRESHOLD}
      RECURSIVE Pick(_)
      Pick(i) == IF i > Len(chunks) THEN <<>>
                 ELSE IF i \in keep THEN <<chunks[i]>> \o Pick(i + 1)
                 ELSE Pick(i + 1)
  IN Pick(1)

\* the loop is entered after load_resources (lines 221-230)
InitQuery ==
  /\ pc = "ask"
  /\ Fresh
  /\ pyhash \in [QUERIES -> HASHES]
  /\ fn_url = <<>> /\ fn_headers = <<>> /\ fn_type = None
  /\ fn_name = <<>> /\ q_name = <<>>
  /\ q_db \in LinkDatabases /\ q_lookup \in Lookups
  /\ q_query = <<>> /\ q_retrieved = <<>> /\ q_calls = <<>>

qRest == <<fn_url, fn_headers, fn_type, fn_name, q_name, inputVars, crawlVars, pwVars>>

\* lines 233-244: a line is read; "exit" ends the loop, a blank line reads
\* the next one, any other line is retrieved for; an exception of retrieve
\* reaches the handler of line 292 and ends the script
ReadQuery ==
  /\ pc = "ask"
  /\ \E query \in Queries :
       /\ q_query' = query
       /\ q_calls' = <<>>
       /\ IF lower(query) = <<"exit">>
          THEN pc' = "q_exit" /\ q_retrieved' = <<>>
          ELSE IF query = <<>>
          THEN pc' = "ask" /\ q_retrieved' = <<>>
          ELSE \/ pc' = "q_failed" /\ q_retrieved' = <<>>
               \/ \E r \in Retrievals : q_retrieved' = r /\ pc' = "retrieved"
  /\ UNCHANGED <<q_db, q_lookup, qRest>>

\* lines 250-288: the good chunks, else the link fallback, else no call;
\* ask_gemini catches what the API raises (lines 208-212)
Answer ==
  /\ pc = "retrieved"
  /\ LET good_context_chunks == GoodChunks(q_retrieved)
         fallback_chunks ==
           find_links_and_load_text(q_query, q_db, q_lookup, DEFAULT_MAX_LINKS)
     IN q_calls' = IF good_context_chunks # <<>> THEN <<good_context_chunks>>
                   ELSE IF fallback_chunks # <<>> THEN <<fallback_chunks>>
                   ELSE <<>>
  /\ pc' = "ask"
  /\ UNCHANGED <<q_db, q_lookup, q_query, q_retrieved, qRest>>

NextQuery == ReadQuery \/ Answer

SpecQuery == InitQuery /\ [][NextQuery]_vars

\* ------------------------------------------------------------------------
\* Properties
\* ------------------------------------------------------------------------
\* the loop of crawl is between two targets, or has ended
BetweenTargets == pc \in {"crawl", "done", "crashed"} /\ seeds # <<>>

IsPageGet(e) == e.method = "GET" /\ ~e.stream
PageGets(u) == {i \in 1..Len(http_log) : IsPageGet(http_log[i]) /\ http_log[i].url = u}
RecordsOf(u) == {i \in 1..Len(crawled_meta) : crawled_meta[i].url = u}

\* C1: between two targets and at the end of the run, crawled_meta holds
\* exactly one record for each URL of visited and no other record.
C1_OneRecordPerVisited ==
  BetweenTargets =>
    /\ Len(crawled_meta) = Cardinality(visited)
    /\ \A u \in visited : Cardinality(RecordsOf(u)) = 1
    /\ \A i \in 1..Len(crawled_meta) : crawled_meta[i].url \in visited

\* C2: crawl issues the page GET of line 214 at most once per URL and
\* crawl_playwright renders a URL at most once; visited and pw_visited only
\* grow, by the URL at the head of the queue, which was not in the set.
C2_NoRefetch ==
  /\ \A u \in visited : Cardinality(PageGets(u)) <= 1
  /\ \A i, j \in 1..Len(pw_renders) : pw_renders[i] = pw_renders[j] => i = j

C2_VisitedStep ==
  /\ visited \subseteq visited'
  /\ pw_visited \subseteq pw_visited'
  /\ \A u \in visited' \ visited : u = Head(queue).url /\ PageGets(u) = {}
  /\ \A u \in pw_visited' \ pw_visited :
       u = Head(pw_queue).url /\ u \notin Range(pw_renders)

C2_NoUrlFetchedTwice == []C2_NoRefetch /\ [][C2_VisitedStep]_vars

\* a URL was discovered twice by the same run and fetched once
C2_Witness ==
  /\ pc = "done"
  /\ \E i, j \in 1..Len(link_db) :
       /\ i < j
       /\ link_db[i].child = link_db[j].child
       /\ link_db[i].note = None /\ link_db[j].note = None
       /\ Cardinality(PageGets(link_db[i].child)) = 1

\* C3: no record has a depth above max_depth, and a step that issues a
\* request or renders a page handles a target of depth <= max_depth.
C3_RecordsWithinDepth ==
  /\ \A i \in 1..Len(crawled_meta) : crawled_meta[i].depth <= max_depth
  /\ \A i \in 1..Len(pw_crawled_meta) : pw_crawled_meta[i].depth <= pw_max_depth

C3_FetchStep ==
  /\ (pc = "crawl" /\ http_log' # http_log) => Head(queue).depth <= max_depth
  /\ (pc \in {"links", "download"}) => cur.depth <= max_depth
  /\ pw_renders' # pw_renders => Head(pw_queue).depth <= pw_max_depth

C3_DepthBound == []C3_RecordsWithinDepth /\ [][C3_FetchStep]_vars

\* a link found at depth max_depth + 1 stayed unfetched until the run ended
C3_Witness ==
  /\ pc = "done" /\ max_depth >= 0
  /\ \E i \in 1..Len(link_db) :
       /\ link_db[i].note = None
       /\ link_db[i].depth > max_depth
       /\ link_db[i].child \notin visited

\* C4: every edge of link_db has the depth of its parent's record plus one,
\* the edges with note skipped_non_text included.
C4_EdgeDepth ==
  BetweenTargets =>
    \A i \in 1..Len(link_db) :
      \E k \in 1..Len(crawled_meta) :
        /\ crawled_meta[k].url = link_db[i].parent
        /\ link_db[i].depth = crawled_meta[k].depth + 1

\* C5: the link loop records an edge for every http/https anchor it handles,
\* also for an anchor that points to another domain.
C5_EdgeForEveryAnchor ==
  [][(pc = "links" /\ follow_same_domain) =>
       \A i \in 1..Handled(cur.url, resp) :
         urlparse(AbsUrl(cur.url, resp[i])).scheme \in {"http", "https"} =>
           \E k \in (Len(link_db) + 1)..Len(link_db') :
             /\ link_db'[k].parent = cur.url
             /\ link_db'[k].child = AbsUrl(cur.url, resp[i])]_vars

\* C6: with the same-domain filter on, every URL requested and every URL in
\* the queue is a seed or has the seed domain as its netloc.
InScope(u) == u \in Range(seeds) \/ urlparse(u).netloc = domain

C6_OnlySeedDomainFetched ==
  follow_same_domain =>
    /\ \A i \in 1..Len(http_log) : InScope(http_log[i].url)
    /\ \A i \in 1..Len(queue) : InScope(queue[i].url)
    /\ \A u \in visited : InScope(u)

\* the page just fetched carries a link to another domain that is no seed
C6_Witness ==
  /\ pc = "links"
  /\ \E i \in 1..Handled(cur.url, resp) :
       /\ urlparse(AbsUrl(cur.url, resp[i])).scheme \in {"http", "https"}
       /\ ~InScope(AbsUrl(cur.url, resp[i]))

\* C7: when the HEAD reports a Content-Length above 10 MB the download step
\* writes nothing, issues no streamed GET and records too_large; with a
\* Content-Length at or below it, or without one, the streamed GET is issued.
Reported(h) == h.ok /\ h.size.present /\ h.size.digits
LastRecord == crawled_meta'[Len(crawled_meta')]

C7_SizeCap ==
  [][pc = "download" =>
       /\ (Reported(head) /\ head.size.n > MaxBytes) =>
            /\ fs_writes' = fs_writes
            /\ http_log' = http_log
            /\ Len(crawled_meta') = Len(crawled_meta) + 1
            /\ LastRecord.url = cur.url
            /\ LastRecord.saved["download_status"] = <<"too_large">>
       /\ ((Reported(head) /\ head.size.n <= MaxBytes) \/ (head.ok /\ ~head.size.present)) =>
            http_log' = Append(http_log, GetStream(cur.url))]_vars

\* a document was recorded as too_large and nothing of it is in the tree
C7_Witness ==
  /\ pc = "crawl"
  /\ \E k \in 1..Len(crawled_meta) :
       /\ crawled_meta[k].type \in {"pdf", "docx", "doc"}
       /\ crawled_meta[k].saved["download_status"] = <<"too_large">>
       /\ \A w \in fs_writes : w.url # crawled_meta[k].url

\* C8: every URL whose page GET was issued has a record once its handling
\* is over, also when the GET or the handling of the response failed, and
\* its page GET is not issued again.
C8_RecordAfterFailure ==
  BetweenTargets =>
    \A i \in 1..Len(http_log) :
      IsPageGet(http_log[i]) =>
        /\ RecordsOf(http_log[i].url) # {}
        /\ Cardinality(PageGets(http_log[i].url)) = 1

\* C9: the loop of crawl is left only with an empty queue, and no step drops
\* a target other than the one it handles.
IsPrefix(s, t) == Len(s) <= Len(t) /\ SubSeq(t, 1, Len(s)) = s
InLoop == pc \in {"crawl", "links", "download"}

C9_Step ==
  /\ (pc = "crawl" /\ queue # <<>>) => (InLoop' /\ IsPrefix(Tail(queue), queue'))
  /\ (pc \in {"links", "download"}) => (pc' = "crawl" /\ IsPrefix(queue, queue'))
  /\ (InLoop /\ ~InLoop') => queue = <<>>

C9_NoFailureAborts == [](pc \in {"done", "crashed"} /\ seeds # <<>> => queue = <<>>)
                      /\ [][C9_Step]_vars

\* a page GET failed (no record) and a later target was fetched and recorded
C9_Witness ==
  /\ pc = "done"
  /\ \E i, j \in 1..Len(http_log) :
       /\ i < j
       /\ IsPageGet(http_log[i]) /\ RecordsOf(http_log[i].url) = {}
       /\ IsPageGet(http_log[j]) /\ RecordsOf(http_log[j].url) # {}

\* C10: when the sitemap given cannot be fetched or parsed, parse_sitemap
\* returns [] and, a start URL being given, crawl is entered with that URL
\* as its only seed, at depth 0.
SitemapFailed == sitemap # <<>> /\ ~sm_docs[sitemap].ok

C10_SitemapFallback ==
  [][(pc = "seeded" /\ SitemapFailed /\ start_url # <<>>) =>
       /\ parse_sitemap(sm_docs, sitemap, 1) = <<>>
       /\ seeds = <<start_url>>
       /\ pc' = "crawl"
       /\ queue' = <<Target(start_url, 0, None, None)>>]_vars

\* the resolver has answered for a failed sitemap and a start URL is there
C10_Witness ==
  /\ pc = "seeded" /\ SitemapFailed /\ start_url # <<>>
  /\ seeds = <<start_url>>

\* C11: between two dequeues, once a target has been processed, the file
\* crawled_resources.json holds the whole of crawled_meta and the file
\* link_db.json holds the whole of link_db (a file not yet written holds
\* nothing, which is all of an empty list).
Processed == visited # {}

C11_PersistedEqualsMemory ==
  (pc = "crawl" /\ Processed) =>
    /\ disk_meta.data = crawled_meta
    /\ disk_links.data = link_db

\* C12: a target that passes line 197 and whose URL path ends with a skip
\* extension is handled without any request, whatever follows the path: the
\* step leaves http_log as it is and notes the URL as skipped_non_text.
PathIsSkip(url) ==
  \E i \in 1..Len(SKIP_EXTENSIONS) :
    endswith(lower(urlparse(url).path), SKIP_EXTENSIONS[i])

C12_SkipPathNoRequest ==
  [][(pc = "crawl" /\ queue # <<>> /\ ~Discarded /\ PathIsSkip(Dequeued.url)) =>
       /\ http_log' = http_log
       /\ Len(link_db') = Len(link_db) + 1
       /\ link_db'[Len(link_db')].child = Dequeued.url
       /\ link_db'[Len(link_db')].note = <<"skipped_non_text">>]_vars

\* C13: when the sitemap yields no URL and the start URL is blank the script
\* exits with status 1 and crawl is never entered: nothing is visited,
\* requested or written.  In every other case crawl is entered with one
\* queued target per seed, at least one.
NoSeed ==
  /\ (sitemap = <<>> \/ parse_sitemap(sm_docs, sitemap, 1) = <<>>)
  /\ start_url = <<>>

NothingCrawled ==
  /\ visited = {} /\ queue = <<>> /\ link_db = <<>> /\ crawled_meta = <<>>
  /\ http_log = <<>> /\ fs_writes = {}
  /\ disk_meta = NoFile /\ disk_links = NoFile

C13_Step ==
  /\ (pc = "seeded" /\ NoSeed) => pc' = "exit1"
  /\ (pc = "seeded" /\ ~NoSeed) =>
       (pc' = "crawl" /\ seeds # <<>> /\ Len(queue') = Len(seeds))
  /\ pc = "exit1" => pc' = "exit1"

C13_NoSeedExits == [](pc = "exit1" => (seeds = <<>> /\ NothingCrawled))
                   /\ [][C13_Step]_vars

\* the script has exited with status 1
C13_Witness == pc = "exit1" /\ seeds = <<>> /\ NothingCrawled

\* C14: the targets that pass line 197 are processed in breadth-first
\* order: each has a depth at least that of the one processed before it, and
\* the queue holds its targets in non-decreasing depth, none shallower than
\* the last one processed.
C14_QueueSorted ==
  /\ \A i, j \in 1..Len(queue) : i < j => queue[i].depth <= queue[j].depth
  /\ \A i \in 1..Len(queue) : queue[i].depth >= last_depth

C14_Step == last_depth' >= last_depth

C14_BreadthFirst == []C14_QueueSorted /\ [][C14_Step]_vars

\* two seeds and a target of depth 1 were processed, the run has ended
C14_Witness ==
  /\ pc = "done" /\ Len(seeds) >= 2 /\ last_depth >= 1
  /\ \A i \in 1..Len(seeds) : seeds[i] \in visited

\* C15: parse_sitemap returns for every sitemap structure after a number of
\* fetches bounded by the structure itself: the sitemap given and each
\* <sitemap><loc> entry of the documents served are fetched at most once,
\* also when an index lists itself or two indexes list one another.
RECURSIVE SumLen(_, _)
SumLen(docs, S) ==
  IF S = {} THEN 0
  ELSE LET s == CHOOSE x \in S : TRUE
       IN (IF docs[s].ok THEN Len(docs[s].sitemaps) ELSE 0) + SumLen(docs, S \ {s})

FetchBudget(docs) == 1 + SumLen(docs, DOMAIN docs)

C15_SitemapFetchesBounded ==
  (pc = "seeded" /\ sitemap # <<>>) => Len(sm_fetched) <= FetchBudget(sm_docs)

\* C16: for a sitemap fetched and parsed, the seeds are its <url><loc>
\* entries in document order when it has any; else the results of its
\* <sitemap><loc> entries concatenated in order, a failed entry giving [] and
\* a sibling with page URLs giving those URLs (the start URL steps in only
\* when that list is empty).
C16_SitemapResult ==
  (pc = "seeded" /\ sitemap # <<>> /\ sm_docs[sitemap].ok) =>
    LET doc == sm_docs[sitemap]
        nested(i) == parse_sitemap(sm_docs, doc.sitemaps[i], 2)
        sub(i) == sm_docs[doc.sitemaps[i]]
        expected == IF doc.urls # <<>> THEN doc.urls
                    ELSE ConcatAll([i \in 1..Len(doc.sitemaps) |-> nested(i)])
    IN /\ seeds = IF expected # <<>> THEN expected
                  ELSE IF start_url # <<>> THEN <<start_url>> ELSE <<>>
       /\ \A i \in 1..Len(doc.sitemaps) :
            /\ ~sub(i).ok => nested(i) = <<>>
            /\ (sub(i).ok /\ sub(i).urls # <<>>) => nested(i) = sub(i).urls
       /\ doc.urls = <<>> =>
            \A i \in 1..Len(doc.sitemaps) :
              (sub(i).ok /\ sub(i).urls # <<>>) => Range(sub(i).urls) \subseteq Range(seeds)

\* an index with a failed entry and a sibling that lists page URLs: the
\* seeds are the sibling's URLs
C16_Witness ==
  /\ pc = "seeded" /\ sitemap # <<>> /\ sm_docs[sitemap].ok
  /\ sm_docs[sitemap].urls = <<>>
  /\ \E i, j \in 1..Len(sm_docs[sitemap].sitemaps) :
       /\ ~sm_docs[sm_docs[sitemap].sitemaps[i]].ok
       /\ sm_docs[sm_docs[sitemap].sitemaps[j]].ok
       /\ seeds = sm_docs[sm_docs[sitemap].sitemaps[j]].urls
       /\ seeds # <<>>

\* C17: get_resource_type returns the document type of the extension the
\* URL path ends with, whatever the headers and whatever follows the path;
\* else pdf, docx or html for a Content-Type with a PDF, Word or HTML
\* marker; else html.
PathDocExts(url) ==
  {i \in 1..Len(DOC_EXTENSIONS) : endswith(lower(urlparse(url).path), DOC_EXTENSIONS[i])}

StatedType(url, headers) ==
  LET exts == PathDocExts(url)
      ctype == lower(HeaderGet(headers, "content-type"))
  IN IF exts # {} THEN LstripDot(DOC_EXTENSIONS[CHOOSE i \in exts : TRUE])
     ELSE IF Contains(ctype, "pdf") THEN "pdf"
     ELSE IF Contains(ctype, "word") \/ Contains(ctype, "officedocument") THEN "docx"
     ELSE "html"

C17_TypeDecisionOrder ==
  pc = "classified" => fn_type = <<StatedType(fn_url, fn_headers)>>

\* C18: for a document the HEAD request comes before any GET of the same
\* URL, and after a HEAD that reports a size above the maximum no GET for
\* that URL follows.
C18_HeadBeforeGet ==
  /\ \A j \in 1..Len(http_log) :
       http_log[j].method = "HEAD" =>
         \A i \in 1..(j - 1) :
           ~(http_log[i].method = "GET" /\ http_log[i].url = http_log[j].url)
  /\ (pc = "download" /\ Reported(head) /\ head.size.n > MaxBytes) =>
       \A i \in 1..Len(http_log) :
         ~(http_log[i].method = "GET" /\ http_log[i].url = cur.url)

\* C19: when the HEAD request raises, or its Content-Length is absent or no
\* number, check_file_size_ok returns True and download_binary issues the
\* streamed GET; the record, if one is written, does not say too_large.
HeadUnusable(h) == ~h.ok \/ ~h.size.present \/ ~h.size.digits

C19_Step ==
  (pc = "download" /\ HeadUnusable(head)) =>
    /\ check_file_size_ok(head)
    /\ http_log' = Append(http_log, GetStream(cur.url))
    /\ Len(crawled_meta') > Len(crawled_meta) =>
         LastRecord.saved["download_status"] \in {<<"downloaded">>, <<"error">>}

C19_SizeCheckFailsOpen == [][C19_Step]_vars

\* the HEAD request of a document raised, or answered with a Content-Length
\* that int() rejects, and the download is due
C19_Witness ==
  /\ pc = "download"
  /\ ~head.ok \/ (head.ok /\ head.size.present /\ ~head.size.digits)
  /\ http_log[Len(http_log)] = HeadReq(cur.url)

\* C20: a step in which save_json of line 285 or 286 fails, leaving a
\* snapshot file behind the list in memory, ends the run.
WriteFailed ==
  /\ pc \in {"links", "download"}
  /\ crawled_meta' # crawled_meta
  /\ disk_meta' # File(crawled_meta') \/ disk_links' # File(link_db')

C20_PersistFailureFatal == [][WriteFailed => pc' = "crashed"]_vars

\* C21: two URLs that differ only in their fragment are one target: no two
\* page GETs and no two records of a run are for URLs that are equal up to
\* the fragment.
Defrag(url) == SplitHash0(url)

C21_FragmentIgnored ==
  /\ \A i, j \in 1..Len(http_log) :
       (i < j /\ IsPageGet(http_log[i]) /\ IsPageGet(http_log[j])) =>
         Defrag(http_log[i].url) # Defrag(http_log[j].url)
  /\ \A i, j \in 1..Len(crawled_meta) :
       i < j => Defrag(crawled_meta[i].url) # Defrag(crawled_meta[j].url)

\* C22: the same-domain filter goes by host: of the http/https anchors the
\* link loop handles, one whose host is the host of the seed domain is
\* enqueued unless visited, whatever port or user-info its authority has,
\* and one with another host is not enqueued.
\* ParseResult.hostname: the authority without user-info and port
Hostname(netloc) ==
  LET ats == {i \in 1..Len(netloc) : netloc[i] = "@"}
      from == IF ats = {} THEN 1 ELSE (CHOOSE i \in ats : \A j \in ats : j <= i) + 1
  IN Slice(netloc, from, FirstIndex(netloc, {":"}, from) - 1)

NewTargets == {queue'[k].url : k \in (Len(queue) + 1)..Len(queue')}

C22_HostScope ==
  [][(pc = "links" /\ follow_same_domain) =>
       \A i \in 1..Handled(cur.url, resp) :
         LET u == AbsUrl(cur.url, resp[i])
             sameHost == Hostname(urlparse(u).netloc) = Hostname(domain)
         IN urlparse(u).scheme \in {"http", "https"} =>
              /\ (sameHost /\ u \notin visited) => u \in NewTargets
              /\ ~sameHost => u \notin NewTargets]_vars

\* C23: a failure of the content extractor does not touch link discovery.
\* In crawl the link loop appends the edges and targets of the anchors it
\* handles whatever the extraction did; in crawl_playwright a page whose
\* extraction failed has its links enqueued as for one whose extraction
\* succeeded.
PwExtractionFailed == PwTmpPath(pw_cur.url) \in pw_files'

C23_Step ==
  /\ pc = "links" =>
       /\ link_db' = link_db \o EdgesOf(cur, resp, Handled(cur.url, resp))
       /\ queue' = queue \o EnqueuedOf(cur, resp, Handled(cur.url, resp), visited)
  /\ (pc = "pw_parse" /\ PwExtractionFailed
        /\ Handled(pw_cur.url, pw_resp) = Len(pw_resp)) =>
       pw_queue' = pw_queue \o PwEnqueuedOf(pw_cur, PwLinks(pw_cur.url, pw_resp),
                                            Len(pw_resp), pw_visited)

C23_LinksDespiteExtractionFailure == [][C23_Step]_vars

\* C24: the frontier only holds targets that passed the depth and dedup
\* filters: every target in the queue has depth <= max_depth, and every
\* target appended by a step was not in visited when it was appended.  The
\* depth bound is stated for max_depth >= 0, where the seeds themselves are
\* within it.
C24_DepthOk ==
  (pc \in {"crawl", "links", "download"} /\ max_depth >= 0) =>
     \A i \in 1..Len(queue) : queue[i].depth <= max_depth

C24_AppendStep == NewTargets \cap visited = {}

C24_FrontierFiltered == []C24_DepthOk /\ [][C24_AppendStep]_vars

\* C25: filename_for_url gives the same token for the same URL in every
\* process: the token query.py computes for a URL equals the token the
\* crawler stored its content under.
C25_NameDeterministic == pc = "looked_up" => q_name = fn_name

\* C26: a parsed JSON file is always saved: every record of type html has
\* a parsed_json path in its saved map and that file was written, and every
\* document record whose download status is downloaded has a parsed_text
\* path whose file was written.
IsDownloaded(r) ==
  r.type \in {"pdf", "docx", "doc"} /\ r.saved["download_status"] = <<"downloaded">>

C26_ParsedAlwaysSaved ==
  \A i \in 1..Len(crawled_meta) :
    LET r == crawled_meta[i]
    IN /\ r.type = "html" =>
            /\ "parsed_json" \in DOMAIN r.saved
            /\ FileWrite(r.saved["parsed_json"], r.url) \in fs_writes
       /\ IsDownloaded(r) =>
            /\ "parsed_text" \in DOMAIN r.saved
            /\ FileWrite(r.saved["parsed_text"], r.url) \in fs_writes

C26_Witness ==
  /\ pc = "done"
  /\ \E i \in 1..Len(crawled_meta) : crawled_meta[i].type = "html"
  /\ \E i \in 1..Len(crawled_meta) : IsDownloaded(crawled_meta[i])

\* C27: dequeuing a target that is already visited or deeper than max_depth
\* is a silent discard: the step removes the head of the queue and leaves
\* visited, crawled_meta, link_db, the rest of the queue and the persisted
\* files as they were, and issues no request.
C27_Step ==
  (pc = "crawl" /\ queue # <<>> /\ Discarded) =>
     /\ queue' = Tail(queue)
     /\ UNCHANGED <<visited, crawled_meta, link_db, disk_meta, disk_links,
                    fs_writes, http_log>>

C27_DiscardIsSilent == [][C27_Step]_vars

\* the queue was drained although a target deeper than max_depth had been
\* appended: it was dropped, with files already on disk
C27_Witness ==
  /\ pc = "crawl" /\ queue = <<>> /\ max_depth >= 0
  /\ disk_meta.exists /\ disk_links.exists
  /\ \E i \in 1..Len(link_db) :
       /\ link_db[i].note = None
       /\ link_db[i].depth > max_depth
       /\ link_db[i].child \notin visited

\* C28: a crawl run always finishes: once crawl is entered, whatever the
\* pages link to and whichever fetches fail, the queue is eventually empty
\* and crawl has returned to the entrypoint, which ends the script.
Returned == queue = <<>> /\ pc \in {"done", "crashed"}

C28_Terminates == (pc = "crawl") ~> Returned

\* a finished run that met a page linking to itself and a failed fetch
C28_Witness ==
  /\ pc = "done"
  /\ \E i \in 1..Len(link_db) : link_db[i].parent = link_db[i].child
  /\ \E u \in visited : RecordsOf(u) = {} /\ ~IsSkipUrl(u)

\* C29: the depth recorded for a crawled URL is its shortest link distance
\* from the seeds, and every in-scope URL within max_depth links of a seed
\* is crawled.  Stated on the crawl's own data: no edge leads to a recorded
\* URL at a depth below its record's, and the link loop of a fetched page
\* appends a target at depth + 1 for every anchor of the page that is
\* well-formed, in scope, within max_depth and not yet visited.
C29_MinDepth ==
  \A i \in 1..Len(crawled_meta), j \in 1..Len(link_db) :
    (link_db[j].note = None /\ link_db[j].child = crawled_meta[i].url) =>
       crawled_meta[i].depth <= link_db[j].depth

C29_Step ==
  pc = "links" =>
    \A i \in 1..Len(resp) :
      LET u == AbsUrl(cur.url, resp[i])
      IN (/\ ~UrlRaises(u)
          /\ KeptLink(cur.url, resp[i])
          /\ u \notin visited
          /\ cur.depth + 1 <= max_depth) =>
           \E k \in (Len(queue) + 1)..Len(queue') :
             queue'[k].url = u /\ queue'[k].depth = cur.depth + 1

C29_ShortestDepthComplete == []C29_MinDepth /\ [][C29_Step]_vars

\* C30: two distinct visited URLs never write the same file of the content
\* tree.  URLs that differ only in their fragment are counted as one here,
\* so that the statement does not rest on how fragments are treated.
C30_NoSharedFile ==
  \A w1, w2 \in fs_writes :
    w1.path = w2.path => Defrag(w1.url) = Defrag(w2.url)

\* C31: ask_gemini is called for a query only with a non-empty context, at
\* most once: with exactly the retrieved chunks below POOR_MATCH_THRESHOLD
\* when there is one; else with link-fallback chunks when a link of the
\* database matches the query and has its text loaded, at most
\* DEFAULT_MAX_LINKS of them, each for a different child URL of such a link;
\* else not at all.
Below(chunks, i) == chunks[i].distance < POOR_MATCH_THRESHOLD
BelowIdx == {i \in 1..Len(q_retrieved) : Below(q_retrieved, i)}

Usable(link) ==
  /\ link.child # <<>>
  /\ LinkMatches(Keywords(q_query), link)
  /\ filename_for_url(link.child) \in q_lookup

IsFallbackContext(ctx) ==
  /\ Len(ctx) <= DEFAULT_MAX_LINKS
  /\ \A i, j \in 1..Len(ctx) : i # j => ctx[i].child # ctx[j].child
  /\ \A i \in 1..Len(ctx) :
       /\ ctx[i].distance = LINK_DISTANCE
       /\ \E k \in 1..Len(q_db) :
            /\ Usable(q_db[k]) /\ q_db[k].child = ctx[i].child
            /\ ctx[i].text = filename_for_url(q_db[k].child)

IsGoodContext(ctx) ==
  /\ Len(ctx) = Cardinality(BelowIdx)
  /\ \A i \in 1..Len(ctx) : ctx[i] \in {q_retrieved[k] : k \in BelowIdx}
  /\ \A k \in BelowIdx : \E i \in 1..Len(ctx) : ctx[i] = q_retrieved[k]

Answered == pc = "ask" /\ q_query # <<>>

C31_ContextNeverEmpty ==
  /\ Len(q_calls) <= 1
  /\ \A i \in 1..Len(q_calls) : q_calls[i] # <<>>
  /\ Answered =>
       IF BelowIdx # {} THEN Len(q_calls) = 1 /\ IsGoodContext(q_calls[1])
       ELSE IF \E k \in 1..Len(q_db) : Usable(q_db[k])
       THEN Len(q_calls) = 1 /\ IsFallbackContext(q_calls[1])
       ELSE q_calls = <<>>

\* a query answered from the link fallback with the cap of max_links
\* reached, more usable links being in the database
C31_Witness ==
  /\ Answered
  /\ q_retrieved # <<>> /\ BelowIdx = {}
  /\ Len(q_calls) = 1 /\ Len(q_calls[1]) = DEFAULT_MAX_LINKS
  /\ Cardinality({q_db[k].child : k \in {n \in 1..Len(q_db) : Usable(q_db[n])}})
       > DEFAULT_MAX_LINKS

====
